---- MODULE Spec2Model ----
(***************************************************************************)
(* Model of the dual-transport facade of the openwork renderer:            *)
(*   - BrowserApiClient (browserApi.ts): the WebSocket event channel, its  *)
(*     subscription map and its reconnect timer;                           *)
(*   - environment.ts / accomplish.ts: runtime detection and getAccomplish;*)
(*   - the companion server's key store (secureStorage.ts, apiKeys.ts).    *)
(***************************************************************************)
EXTENDS Integers, Sequences, FiniteSets, TLC

\* ------------------------------------------------------------------ bounds
MaxSockets == 3      \* WebSocket objects constructed in one run
MaxCalls == 2        \* calls of getAccomplish() recorded in one run
MaxLive == 2         \* on() calls for one callback whose handle is unused

\* ------------------------------------------------------- the event channel
Channels == {"task:update", "debug:log"}
Callbacks == {"cb1", "cbThrow"}
Data == {"d1"}
NoSocket == 0

\* A caller's callback either returns or throws; cbThrow is one that throws.
Throws(cb) == cb = "cbThrow"

\* The frames a server can push.  kind "text" is a string that is not JSON,
\* kind "null" is the JSON text null, kind "envelope" is {channel, data}.
Payloads ==
    {[kind |-> "text", channel |-> "", data |-> ""],
     [kind |-> "null", channel |-> "", data |-> ""]}
    \cup [kind : {"envelope"}, channel : Channels, data : Data]

NoMsg == [kind |-> "none", channel |-> "", data |-> "", subs |-> <<>>,
          cancelled |-> {}]

VARIABLES
    ws,              \* BrowserApiClient.ws: id of the current socket, or NoSocket
    sockets,         \* every WebSocket constructed so far: id -> readyState
    timers,          \* pending setTimeout(connectWebSocket, 1000) callbacks
    eventListeners,  \* channel -> callbacks in insertion order (a JS Set)
    handles,         \* cleanup closures returned by on(): <<channel, callback>>
    cancelled,       \* <<channel, callback>> whose cleanup ran after its last on()
    preClose,        \* <<channel, callback>> subscribed when a socket last closed,
                     \* less the pairs cancelled since; {} once on() is called
    lastMsg,         \* the frame handled last and, as of its arrival, the
                     \* listeners of its channel (subs) and the callbacks of its
                     \* channel that were cancelled
    invoked,         \* the calls the last onmessage made: [cb, data], in order
    escaped,         \* an exception left an onmessage handler
    live,            \* <<channel, callback>> -> the on() calls for it whose
                     \* own cleanup closure has not been invoked
    spent            \* <<channel, callback>> with a cleanup closure that has
                     \* been invoked (and can be invoked again)

\* What tells the cleanup closures of one <<channel, callback>> apart.
handleVars == <<live, spent>>

wsVars == <<ws, sockets, timers, eventListeners, handles, cancelled, preClose,
            lastMsg, invoked, escaped, live, spent>>

VARIABLES
    shell,           \* window.accomplishShell: "undefined", or its isElectron
                     \* field: "true", "false", "truthy" (truthy but not true);
                     \* "no-window" where there is no window object at all
    bridge,          \* window.accomplish is defined
    envApiBaseUrl,   \* import.meta.env.VITE_API_BASE_URL ("" when not set)
    envWsUrl,        \* import.meta.env.VITE_WS_URL ("" when not set)
    module,          \* evaluation of accomplish.ts and its import browserApi.ts:
                     \* "unloaded", "loaded" or "failed", with the error thrown
    baseUrl,         \* browserApi.baseUrl
    wsUrl,           \* browserApi.wsUrl
    load,            \* window.accomplishShell and window.accomplish at the import
    calls            \* the getAccomplish() calls so far: the globals at the call
                     \* and what the call returned or threw

facadeVars == <<shell, bridge, envApiBaseUrl, envWsUrl, module, baseUrl, wsUrl,
                load, calls>>

VARIABLES
    tableExists,     \* the SQLite database has the table api_keys
    rows,            \* api_keys: provider -> encrypted_key (base64 text)
    posted,          \* provider -> the key of the last POST that stored one for
                     \* it, null after a DELETE of it
    response,        \* the request served last and the response to it
    outcome          \* what request() settled to for that response

storeVars == <<tableExists, rows, posted, response, outcome>>

VARIABLES
    lastCall         \* the last call of a function of environment.ts or of a
                     \* capability of getAccomplish(): the globals at the call
                     \* and how the call ended

callVars == <<lastCall>>

vars == <<wsVars, facadeVars, storeVars, callVars>>

\* What the handlers of the event channel leave alone.
others == <<facadeVars, storeVars, callVars, handleVars>>

\* What on() and its cleanup closures leave alone.
outside == <<facadeVars, storeVars, callVars>>

\* ---------------------------------------------------------------- helpers
Range(s) == {s[i] : i \in 1..Len(s)}

RECURSIVE SeqDelete(_, _)
\* Set.prototype.delete: the sequence without x.
SeqDelete(s, x) ==
    IF s = <<>> THEN <<>>
    ELSE IF Head(s) = x THEN SeqDelete(Tail(s), x)
    ELSE <<Head(s)>> \o SeqDelete(Tail(s), x)

SetAddFront(s, x) == IF x \in Range(s) THEN s ELSE <<x>> \o s

\* Set.prototype.add: x appended unless already a member.
SetAdd(s, x) == IF x \in Range(s) THEN s ELSE Append(s, x)

\* Map.prototype.has
MapHas(m, c) == c \in DOMAIN m

\* Map.prototype.get, with undefined read as no listeners.
ListenersOf(listeners, channel) ==
    IF MapHas(listeners, channel) THEN listeners[channel] ELSE <<>>

\* The <<channel, callback>> pairs a subscription map holds.
Subscribed(listeners) ==
    {pr \in Channels \X Callbacks :
        MapHas(listeners, pr[1]) /\ pr[2] \in Range(listeners[pr[1]])}

\* JSON.parse of a frame: ok = FALSE when it throws SyntaxError; isObject =
\* FALSE when the value cannot be destructured (null).
JSONParse(p) ==
    IF p.kind = "text" THEN [ok |-> FALSE, isObject |-> FALSE]
    ELSE IF p.kind = "null" THEN [ok |-> TRUE, isObject |-> FALSE]
    ELSE [ok |-> TRUE, isObject |-> TRUE]

\* ------------------------------------------------------- connectWebSocket
connectWebSocketNoGuard(w, socks) ==
    [ws |-> Len(socks) + 1, sockets |-> Append(socks, "connecting")]

\* if (this.ws) return; this.ws = new WebSocket(this.wsUrl)
connectWebSocket(w, socks) ==
    IF w # NoSocket THEN [ws |-> w, sockets |-> socks]
    ELSE [ws |-> Len(socks) + 1, sockets |-> Append(socks, "connecting")]

\* --------------------------------------------------------- environment.ts
ShellValues == {"no-window", "undefined", "true", "false", "truthy"}
EnvValues == {"", "configured"}

\* typeof window !== 'undefined' && window.accomplishShell !== undefined &&
\* window.accomplishShell.isElectron === true
isElectronTruthy(sh) ==
    sh # "no-window" /\ sh # "undefined" /\ sh \in {"true", "truthy"}

isElectron(sh) == sh # "no-window" /\ sh # "undefined" /\ sh = "true"

\* isBrowser()
isBrowser(sh) == ~isElectron(sh)

\* getRuntimeMode()
getRuntimeMode(sh) == IF isElectron(sh) THEN "electron" ELSE "browser"

\* getApiBaseUrl() without the isElectron() guard.
getApiBaseUrlNoGuard(sh, env) ==
    [threw |-> FALSE,
     value |-> IF env # "" THEN env ELSE "http://localhost:3001"]

\* getApiBaseUrl(): throws in Electron mode, else the configured value or
\* the default.
getApiBaseUrl(sh, env) ==
    IF isElectron(sh)
    THEN [threw |-> TRUE,
          value |-> "getApiBaseUrl should not be called in Electron mode"]
    ELSE [threw |-> FALSE,
          value |-> IF env # "" THEN env ELSE "http://localhost:3001"]

\* getWebSocketUrl(): the same for the WebSocket URL.
getWebSocketUrl(sh, env) ==
    IF isElectron(sh)
    THEN [threw |-> TRUE,
          value |-> "getWebSocketUrl should not be called in Electron mode"]
    ELSE [threw |-> FALSE,
          value |-> IF env # "" THEN env ELSE "ws://localhost:3002"]

\* ---------------------------------------------- browserApi.ts, accomplish.ts
\* new BrowserApiClient(): this.baseUrl = getApiBaseUrl(); this.wsUrl =
\* getWebSocketUrl().  It runs when browserApi.ts is evaluated.
BrowserApiClient(sh, envApi, envWs) ==
    LET a == getApiBaseUrl(sh, envApi)
        w == getWebSocketUrl(sh, envWs)
    IN IF a.threw THEN [threw |-> TRUE, error |-> a.value,
                        baseUrl |-> "", wsUrl |-> ""]
       ELSE IF w.threw THEN [threw |-> TRUE, error |-> w.value,
                             baseUrl |-> "", wsUrl |-> ""]
       ELSE [threw |-> FALSE, error |-> "",
             baseUrl |-> a.value, wsUrl |-> w.value]

\* getAccomplish(): the browser API unless isElectron(); in Electron the
\* bridge's API, or an Error when window.accomplish is missing.
getAccomplish(sh, br) ==
    IF ~isElectron(sh) THEN "remote"
    ELSE IF ~br THEN "Accomplish API not available - not running in Electron"
    ELSE "native"

\* useAccomplish(): window.accomplish, or an Error when it is missing; the
\* detector is not asked.  Without a window the read of window throws.
useAccomplish(sh, br) ==
    IF sh = "no-window"
    THEN [threw |-> TRUE, value |-> "ReferenceError: window is not defined"]
    ELSE IF ~br
    THEN [threw |-> TRUE,
          value |-> "Accomplish API not available - not running in Electron"]
    ELSE [threw |-> FALSE, value |-> "native"]

\* The argument of a call: none, an object or a string; json counts the
\* JSON.stringify applied to it.
NoArg == [type |-> "none", text |-> "", json |-> 0]
Args ==
    {NoArg, [type |-> "object", text |-> "credentials", json |-> 0],
     [type |-> "string", text |-> "text", json |-> 0]}

\* JSON.stringify(x): a string, the JSON text of x.
JSONStringify(x) == [type |-> "string", text |-> x.text, json |-> x.json + 1]

nativeAccomplishAPIStringifyFetch(op, arg) ==
    [target |-> op,
     passed |-> IF op \in {"validateBedrockCredentials",
                           "saveBedrockCredentials", "fetchBedrockModels"}
                THEN JSONStringify(arg)
                ELSE IF op = "getBedrockCredentials" THEN NoArg
                ELSE arg]

\* The object getAccomplish() returns in Electron: the properties of
\* window.accomplish, with four Bedrock operations replaced by wrappers.
\* target is the operation of the bridge a call ends in, passed the
\* argument it receives.
nativeAccomplishAPI(op, arg) ==
    [target |-> op,
     passed |-> IF op \in {"validateBedrockCredentials",
                           "saveBedrockCredentials"}
                THEN JSONStringify(arg)
                ELSE IF op = "getBedrockCredentials" THEN NoArg
                ELSE arg]

NoLoad == [shell |-> "undefined", bridge |-> FALSE, error |-> ""]

\* The renderer imports accomplish.ts: its import of browserApi.ts is
\* evaluated first and constructs the client.  A module whose evaluation
\* threw stays failed.
Import ==
    /\ module = "unloaded"
    /\ LET c == BrowserApiClient(shell, envApiBaseUrl, envWsUrl)
       IN /\ module' = IF c.threw THEN "failed" ELSE "loaded"
          /\ baseUrl' = c.baseUrl
          /\ wsUrl' = c.wsUrl
          /\ load' = [shell |-> shell, bridge |-> bridge, error |-> c.error]
    /\ UNCHANGED <<shell, bridge, envApiBaseUrl, envWsUrl, calls>>
    /\ UNCHANGED <<wsVars, storeVars, callVars>>

\* A caller calls getAccomplish().
GetAccomplish ==
    /\ module = "loaded"
    /\ Len(calls) < MaxCalls
    /\ calls' = Append(calls, [shell |-> shell, bridge |-> bridge,
                               result |-> getAccomplish(shell, bridge)])
    /\ UNCHANGED <<shell, bridge, envApiBaseUrl, envWsUrl, module, baseUrl,
                   wsUrl, load>>
    /\ UNCHANGED <<wsVars, storeVars, callVars>>

\* Some script of the page sets, changes or removes window.accomplishShell.
SetShell(v) ==
    /\ v # shell
    /\ v # "no-window" /\ shell # "no-window"
    /\ shell' = v
    /\ UNCHANGED <<bridge, envApiBaseUrl, envWsUrl, module, baseUrl, wsUrl,
                   load, calls>>
    /\ UNCHANGED <<wsVars, storeVars, callVars>>

\* Some script of the page sets or removes window.accomplish.
SetBridge(b) ==
    /\ b # bridge
    /\ bridge' = b
    /\ UNCHANGED <<shell, envApiBaseUrl, envWsUrl, module, baseUrl, wsUrl,
                   load, calls>>
    /\ UNCHANGED <<wsVars, storeVars, callVars>>

\* ------------------------------------------- createBrowserAccomplishAPI
NotImplemented == "Not implemented in browser mode"
TaskExecutionNotYet == "Task execution not yet implemented in browser mode"
TaskOperationsNotYet == "Task operations not yet implemented in browser mode"

\* The capabilities of the browser API: <<name, section of the object
\* literal, how a call ends, with what>>.  A call ends "rejected" with a
\* message, "resolved" with a value, in a "request" of browserApi to the
\* server, in "local" work of the page (localStorage, window.open), or
\* "subscribed" to a channel of browserApi.on.
BrowserCapabilities ==
    {<<"getVersion", "app", "request", "/api/app/version">>,
     <<"getPlatform", "app", "request", "/api/app/platform">>,
     <<"openExternal", "shell", "local", "window.open">>,
     <<"startTask", "task", "rejected", TaskExecutionNotYet>>,
     <<"cancelTask", "task", "rejected", TaskOperationsNotYet>>,
     <<"interruptTask", "task", "rejected", TaskOperationsNotYet>>,
     <<"getTask", "task", "rejected", TaskOperationsNotYet>>,
     <<"listTasks", "task", "resolved", "[]">>,
     <<"deleteTask", "task", "rejected", TaskOperationsNotYet>>,
     <<"clearTaskHistory", "task", "rejected", TaskOperationsNotYet>>,
     <<"respondToPermission", "permission", "rejected", NotImplemented>>,
     <<"resumeSession", "session", "rejected", NotImplemented>>,
     <<"getApiKeys", "settings", "resolved", "[]">>,
     <<"addApiKey", "settings", "rejected", NotImplemented>>,
     <<"removeApiKey", "settings", "rejected", NotImplemented>>,
     <<"getDebugMode", "settings", "resolved", "false">>,
     <<"setDebugMode", "settings", "resolved", "undefined">>,
     <<"getAppSettings", "settings", "local", "localStorage">>,
     <<"hasApiKey", "apikey", "request", "/api/api-keys/has-any">>,
     <<"setApiKey", "apikey", "request", "POST /api/api-keys/default">>,
     <<"getApiKey", "apikey", "request", "/api/api-keys/default">>,
     <<"validateApiKey", "apikey", "request",
       "POST /api/api-keys/default/validate">>,
     <<"validateApiKeyForProvider", "apikey", "request",
       "POST /api/api-keys/:provider/validate">>,
     <<"clearApiKey", "apikey", "request", "DELETE /api/api-keys/default">>,
     <<"getOnboardingComplete", "onboarding", "local", "localStorage">>,
     <<"setOnboardingComplete", "onboarding", "local", "localStorage">>,
     <<"checkClaudeCli", "cli", "resolved", "object">>,
     <<"getClaudeVersion", "cli", "resolved", "null">>,
     <<"getSelectedModel", "model", "resolved", "null">>,
     <<"setSelectedModel", "model", "resolved", "undefined">>,
     <<"getAllApiKeys", "multikey", "request", "/api/api-keys/all">>,
     <<"hasAnyApiKey", "multikey", "request", "/api/api-keys/has-any">>,
     <<"testOllamaConnection", "ollama", "rejected", NotImplemented>>,
     <<"getOllamaConfig", "ollama", "resolved", "null">>,
     <<"setOllamaConfig", "ollama", "resolved", "undefined">>,
     <<"getAzureFoundryConfig", "azure", "resolved", "null">>,
     <<"setAzureFoundryConfig", "azure", "resolved", "undefined">>,
     <<"testAzureFoundryConnection", "azure", "rejected", NotImplemented>>,
     <<"saveAzureFoundryConfig", "azure", "resolved", "undefined">>,
     <<"testLiteLLMConnection", "litellm", "rejected", NotImplemented>>,
     <<"fetchLiteLLMModels", "litellm", "rejected", NotImplemented>>,
     <<"getLiteLLMConfig", "litellm", "resolved", "null">>,
     <<"setLiteLLMConfig", "litellm", "resolved", "undefined">>,
     <<"fetchOpenRouterModels", "openrouter", "rejected", NotImplemented>>,
     <<"validateBedrockCredentials", "bedrock", "rejected", NotImplemented>>,
     <<"fetchBedrockModels", "bedrock", "rejected", NotImplemented>>,
     <<"saveBedrockCredentials", "bedrock", "rejected", NotImplemented>>,
     <<"getBedrockCredentials", "bedrock", "resolved", "null">>,
     <<"isE2EMode", "e2e", "resolved", "false">>,
     <<"getProviderSettings", "provider", "resolved", "object">>,
     <<"setActiveProvider", "provider", "resolved", "undefined">>,
     <<"getConnectedProvider", "provider", "resolved", "null">>,
     <<"setConnectedProvider", "provider", "resolved", "undefined">>,
     <<"removeConnectedProvider", "provider", "resolved", "undefined">>,
     <<"updateProviderModel", "provider", "resolved", "undefined">>,
     <<"setProviderDebugMode", "provider", "resolved", "undefined">>,
     <<"getProviderDebugMode", "provider", "resolved", "false">>,
     <<"onTaskUpdate", "event", "subscribed", "task:update">>,
     <<"onTaskProgress", "event", "subscribed", "task:progress">>,
     <<"onPermissionRequest", "event", "subscribed", "permission:request">>,
     <<"onTaskSummary", "event", "subscribed", "task:summary">>,
     <<"onQuestionRequest", "event", "subscribed", "question:request">>,
     <<"onDebugLog", "event", "subscribed", "debug:log">>,
     <<"logEvent", "logging", "resolved", "undefined">>}

Capabilities == {t[1] : t \in BrowserCapabilities}

\* The entry of a capability in the object createBrowserAccomplishAPI returns.
createBrowserAccomplishAPI(op) ==
    LET t == CHOOSE t \in BrowserCapabilities : t[1] = op
    IN [category |-> t[2], kind |-> t[3], value |-> t[4]]

\* The section of the object literal a capability stands in.
Category(op) == createBrowserAccomplishAPI(op).category

\* A caller calls getAccomplish().op(arg): the browser API's entry, the
\* bridge's method in Electron, or the Error of getAccomplish().
CallCapability(op, arg) ==
    /\ module = "loaded"
    /\ LET api == getAccomplish(shell, bridge)
           entry == createBrowserAccomplishAPI(op)
           native == nativeAccomplishAPI(op, arg)
       IN lastCall' =
            [fn |-> op, shell |-> shell, bridge |-> bridge, env |-> "",
             kind |-> IF api = "remote" THEN entry.kind
                      ELSE IF api = "native" THEN "native" ELSE "threw",
             value |-> IF api = "remote" THEN entry.value
                       ELSE IF api = "native" THEN native.target ELSE api,
             arg |-> arg,
             passed |-> IF api = "native" THEN native.passed ELSE NoArg]
    /\ UNCHANGED <<wsVars, facadeVars, storeVars>>

\* A component calls the hook useAccomplish().
UseAccomplish ==
    /\ module = "loaded"
    /\ LET r == useAccomplish(shell, bridge)
       IN lastCall' =
            [fn |-> "useAccomplish", shell |-> shell, bridge |-> bridge,
             env |-> "", kind |-> IF r.threw THEN "threw" ELSE "returned",
             value |-> r.value, arg |-> NoArg, passed |-> NoArg]
    /\ UNCHANGED <<wsVars, facadeVars, storeVars>>

\* ------------------------------------------------- calls of environment.ts
Returned(fn, value) ==
    [fn |-> fn, shell |-> shell, bridge |-> bridge, env |-> "",
     kind |-> "returned", value |-> value, arg |-> NoArg, passed |-> NoArg]

IsElectron ==
    /\ lastCall' = Returned("isElectron",
                            IF isElectron(shell) THEN "true" ELSE "false")
    /\ UNCHANGED <<wsVars, facadeVars, storeVars>>

IsBrowser ==
    /\ lastCall' = Returned("isBrowser",
                            IF isBrowser(shell) THEN "true" ELSE "false")
    /\ UNCHANGED <<wsVars, facadeVars, storeVars>>

GetRuntimeMode ==
    /\ lastCall' = Returned("getRuntimeMode", getRuntimeMode(shell))
    /\ UNCHANGED <<wsVars, facadeVars, storeVars>>

GetApiBaseUrl ==
    /\ LET r == getApiBaseUrl(shell, envApiBaseUrl)
       IN lastCall' = [fn |-> "getApiBaseUrl", shell |-> shell,
                       bridge |-> bridge, env |-> envApiBaseUrl,
                       kind |-> IF r.threw THEN "threw" ELSE "returned",
                       value |-> r.value, arg |-> NoArg, passed |-> NoArg]
    /\ UNCHANGED <<wsVars, facadeVars, storeVars>>

GetWebSocketUrl ==
    /\ LET r == getWebSocketUrl(shell, envWsUrl)
       IN lastCall' = [fn |-> "getWebSocketUrl", shell |-> shell,
                       bridge |-> bridge, env |-> envWsUrl,
                       kind |-> IF r.threw THEN "threw" ELSE "returned",
                       value |-> r.value, arg |-> NoArg, passed |-> NoArg]
    /\ UNCHANGED <<wsVars, facadeVars, storeVars>>

\* ------------------------------------------------------- secureStorage.ts
\* 'change-me-in-production' as UTF-16 code units.
ENCRYPTION_KEY ==
    <<99, 104, 97, 110, 103, 101, 45, 109, 101, 45, 105, 110, 45, 112, 114,
      111, 100, 117, 99, 116, 105, 111, 110>>

RECURSIVE BitXor(_, _)
\* a ^ b on non-negative integers.
BitXor(a, b) ==
    IF a = 0 THEN b
    ELSE IF b = 0 THEN a
    ELSE (((a % 2) + (b % 2)) % 2) + 2 * BitXor(a \div 2, b \div 2)

\* text.charCodeAt(i) ^ ENCRYPTION_KEY.charCodeAt(i % ENCRYPTION_KEY.length),
\* for every i (i counts from 0 in the source, from 1 here).
XorKey(text) ==
    [i \in 1..Len(text) |->
        BitXor(text[i], ENCRYPTION_KEY[((i - 1) % Len(ENCRYPTION_KEY)) + 1])]

IsHighSurrogate(c) == c >= 55296 /\ c <= 56319
IsLowSurrogate(c) == c >= 56320 /\ c <= 57343

RECURSIVE Utf8Encode(_)
\* Buffer.from(string): the UTF-8 bytes of a UTF-16 string; a surrogate that
\* is not part of a pair is encoded as U+FFFD (EF BF BD).
Utf8Encode(u) ==
    IF u = <<>> THEN <<>>
    ELSE LET c == Head(u)
         IN IF c < 128 THEN <<c>> \o Utf8Encode(Tail(u))
            ELSE IF c < 2048
            THEN <<192 + (c \div 64), 128 + (c % 64)>> \o Utf8Encode(Tail(u))
            ELSE IF IsHighSurrogate(c) /\ Len(u) >= 2 /\ IsLowSurrogate(u[2])
            THEN LET cp == 65536 + (c - 55296) * 1024 + (u[2] - 56320)
                 IN <<240 + (cp \div 262144), 128 + ((cp \div 4096) % 64),
                      128 + ((cp \div 64) % 64), 128 + (cp % 64)>>
                    \o Utf8Encode(Tail(Tail(u)))
            ELSE IF IsHighSurrogate(c) \/ IsLowSurrogate(c)
            THEN <<239, 191, 189>> \o Utf8Encode(Tail(u))
            ELSE <<224 + (c \div 4096), 128 + ((c \div 64) % 64),
                   128 + (c % 64)>> \o Utf8Encode(Tail(u))

RECURSIVE Utf8Decode(_)
\* buffer.toString(): the UTF-16 string of UTF-8 bytes (the bytes decoded
\* here always come from Utf8Encode; a byte that starts no sequence is read
\* as U+FFFD).
Utf8Decode(b) ==
    IF b = <<>> THEN <<>>
    ELSE LET x == Head(b)
         IN IF x < 128 THEN <<x>> \o Utf8Decode(Tail(b))
            ELSE IF x >= 192 /\ x < 224 /\ Len(b) >= 2
            THEN <<(x - 192) * 64 + (b[2] - 128)>>
                    \o Utf8Decode(SubSeq(b, 3, Len(b)))
            ELSE IF x >= 224 /\ x < 240 /\ Len(b) >= 3
            THEN <<(x - 224) * 4096 + (b[2] - 128) * 64 + (b[3] - 128)>>
                    \o Utf8Decode(SubSeq(b, 4, Len(b)))
            ELSE IF x >= 240 /\ Len(b) >= 4
            THEN LET v == (x - 240) * 262144 + (b[2] - 128) * 4096
                          + (b[3] - 128) * 64 + (b[4] - 128) - 65536
                 IN <<55296 + (v \div 1024), 56320 + (v % 1024)>>
                    \o Utf8Decode(SubSeq(b, 5, Len(b)))
            ELSE <<65533>> \o Utf8Decode(Tail(b))

RECURSIVE Base64Encode(_)
\* buffer.toString('base64'): the text as 6-bit digits, 64 standing for '='.
Base64Encode(b) ==
    IF b = <<>> THEN <<>>
    ELSE IF Len(b) = 1
    THEN <<b[1] \div 4, (b[1] % 4) * 16, 64, 64>>
    ELSE IF Len(b) = 2
    THEN <<b[1] \div 4, (b[1] % 4) * 16 + (b[2] \div 16), (b[2] % 16) * 4, 64>>
    ELSE <<b[1] \div 4, (b[1] % 4) * 16 + (b[2] \div 16),
           (b[2] % 16) * 4 + (b[3] \div 64), b[3] % 64>>
         \o Base64Encode(SubSeq(b, 4, Len(b)))

RECURSIVE Base64Decode(_)
\* Buffer.from(text, 'base64')
Base64Decode(t) ==
    IF Len(t) < 4 THEN <<>>
    ELSE IF t[3] = 64
    THEN <<t[1] * 4 + (t[2] \div 16)>>
    ELSE IF t[4] = 64
    THEN <<t[1] * 4 + (t[2] \div 16), (t[2] % 16) * 16 + (t[3] \div 4)>>
    ELSE <<t[1] * 4 + (t[2] \div 16), (t[2] % 16) * 16 + (t[3] \div 4),
           (t[3] % 4) * 64 + t[4]>>
         \o Base64Decode(SubSeq(t, 5, Len(t)))

simpleEncrypt(text) == Base64Encode(Utf8Encode(XorKey(text)))

simpleDecrypt(encrypted) == XorKey(Utf8Decode(Base64Decode(encrypted)))

\* The names a request can carry in the :provider place.
ProviderNames == {"default", "all", "has-any"}

\* The strings a request body can carry as key: "", "ab", "sk-123456",
\* U+1F600 (a surrogate pair) and a lone high surrogate (JSON "\ud800").
KeyStrings ==
    {<<>>, <<97, 98>>, <<115, 107, 45, 49, 50, 51, 52, 53, 54>>,
     <<55357, 56832>>, <<55296>>}

\* req.body.key: a string, absent, or a number.
KeyValues ==
    [type : {"string"}, str : KeyStrings]
    \cup {[type |-> "undefined", str |-> <<>>], [type |-> "number", str |-> <<>>]}

NoKey == [type |-> "undefined", str |-> <<>>]

\* The request body is not JSON: req.body.key is never read.
Malformed == [type |-> "malformed", str |-> <<>>]

\* !key
Falsy(k) == k.type = "undefined" \/ (k.type = "string" /\ k.str = <<>>)

Null == [isNull |-> TRUE, str |-> <<>>]
Str(x) == [isNull |-> FALSE, str |-> x]

\* storeApiKey: CREATE TABLE IF NOT EXISTS; INSERT OR REPLACE.
storeApiKey(table, provider, key) ==
    [p \in DOMAIN table \cup {provider} |->
        IF p = provider THEN simpleEncrypt(key) ELSE table[p]]

\* getApiKey: the decrypted key of the provider's row, or null.
getApiKey(table, provider) ==
    IF provider \notin DOMAIN table THEN Null
    ELSE Str(simpleDecrypt(table[provider]))

\* deleteApiKey that leaves the row in place.
deleteApiKeyKeepsRow(table, provider) == table

\* deleteApiKey: DELETE FROM api_keys WHERE provider = ?
deleteApiKey(table, provider) ==
    [p \in DOMAIN table \ {provider} |-> table[p]]

\* decrypted.substring(0, 8) + '...' (46 is '.')
Prefix(x) == SubSeq(x, 1, IF Len(x) < 8 THEN Len(x) ELSE 8) \o <<46, 46, 46>>

\* getAllApiKeys: provider -> {exists: true, prefix}
getAllApiKeys(table) ==
    [p \in DOMAIN table |->
        [exists |-> TRUE, prefix |-> Prefix(simpleDecrypt(table[p]))]]

\* hasAnyApiKey: SELECT COUNT(*) > 0
hasAnyApiKey(table) == DOMAIN table # {}

\* ------------------------------------------------------------- apiKeys.ts
Methods == {"GET", "POST", "DELETE"}
Paths ==
    {<<n>> : n \in ProviderNames}
    \cup {<<n, t>> : n \in ProviderNames, t \in {"exists", "validate"}}

\* The handler Express picks for a request below /api/api-keys: the first
\* route registered for the method whose pattern matches the path.
Route(method, path) ==
    IF method = "GET" /\ path = <<"has-any">> THEN "has-any"
    ELSE IF method = "GET" /\ path = <<"all">> THEN "all"
    ELSE IF method = "GET" /\ Len(path) = 2 /\ path[2] = "exists" THEN "exists"
    ELSE IF method = "GET" /\ Len(path) = 1 THEN "get"
    ELSE IF method = "POST" /\ Len(path) = 1 THEN "post"
    ELSE IF method = "DELETE" /\ Len(path) = 1 THEN "delete"
    ELSE IF method = "POST" /\ Len(path) = 2 /\ path[2] = "validate"
    THEN "validate"
    ELSE "none"

NoBody == [kind |-> "none", flag |-> FALSE, key |-> Null, all |-> <<>>,
           error |-> "", warning |-> ""]

NoResponse == [method |-> "", path |-> <<>>, key |-> NoKey, status |-> 0,
               body |-> NoBody]

\* The text of `HTTP ${response.status}`.
HttpMessage(status) ==
    CASE status = 400 -> "HTTP 400"
      [] status = 401 -> "HTTP 401"
      [] status = 404 -> "HTTP 404"
      [] status = 500 -> "HTTP 500"
      [] status = 502 -> "HTTP 502"
      [] OTHER -> "HTTP"

\* No request has settled.
NoOutcome == [settled |-> "none", message |-> "", value |-> NoBody,
              fetches |-> 0]

\* request() that ignores the body of a response that is not ok.
requestIgnoresBody(resp) ==
    IF resp.status < 200 \/ resp.status > 299
    THEN [settled |-> "rejected", message |-> "Request failed",
          value |-> NoBody, fetches |-> 1]
    ELSE [settled |-> "resolved", message |-> "", value |-> resp.body,
          fetches |-> 1]

\* BrowserApiClient.request(): what the promise settles to for the response
\* of its one fetch().  A response that is not ok rejects with the error
\* field of its JSON body, 'Request failed' when the body is not JSON, or
\* 'HTTP <status>' when the field is missing or empty.
request(resp) ==
    IF resp.status < 200 \/ resp.status > 299
    THEN [settled |-> "rejected",
          message |-> IF resp.body.kind = "html" THEN "Request failed"
                      ELSE IF resp.body.error # "" THEN resp.body.error
                      ELSE HttpMessage(resp.status),
          value |-> NoBody, fetches |-> 1]
    ELSE [settled |-> "resolved", message |-> "", value |-> resp.body,
          fetches |-> 1]

\* BrowserApiClient.validateApiKey(): the result of its request.
validateApiKey(resp) == request(resp)

\* The response recorded for a request, and what request() of the client
\* that sent it settles to.
Respond(method, path, key, status, body) ==
    /\ response' = [method |-> method, path |-> path, key |-> key,
                    status |-> status, body |-> body]
    /\ outcome' = request(response')

\* router.get('/has-any')
HasAny(path) ==
    /\ Route("GET", path) = "has-any"
    /\ tableExists' = TRUE
    /\ Respond("GET", path, NoKey, 200,
               [NoBody EXCEPT !.kind = "exists", !.flag = hasAnyApiKey(rows)])
    /\ UNCHANGED <<rows, posted>>
    /\ UNCHANGED <<wsVars, facadeVars, callVars>>

\* router.get('/all')
GetAll(path) ==
    /\ Route("GET", path) = "all"
    /\ tableExists' = TRUE
    /\ Respond("GET", path, NoKey, 200,
               [NoBody EXCEPT !.kind = "all", !.all = getAllApiKeys(rows)])
    /\ UNCHANGED <<rows, posted>>
    /\ UNCHANGED <<wsVars, facadeVars, callVars>>

\* router.get('/:provider/exists')
Exists(path) ==
    /\ Route("GET", path) = "exists"
    /\ tableExists' = TRUE
    /\ Respond("GET", path, NoKey, 200,
               [NoBody EXCEPT !.kind = "exists",
                              !.flag = ~getApiKey(rows, path[1]).isNull])
    /\ UNCHANGED <<rows, posted>>
    /\ UNCHANGED <<wsVars, facadeVars, callVars>>

\* router.get('/:provider')
Get(path) ==
    /\ Route("GET", path) = "get"
    /\ tableExists' = TRUE
    /\ Respond("GET", path, NoKey, 200,
               [NoBody EXCEPT !.kind = "key", !.key = getApiKey(rows, path[1])])
    /\ UNCHANGED <<rows, posted>>
    /\ UNCHANGED <<wsVars, facadeVars, callVars>>

\* router.post('/:provider') without the check of the key.
PostNoCheck(path, key) ==
    /\ Route("POST", path) = "post"
    /\ tableExists' = TRUE
    /\ rows' = storeApiKey(rows, path[1], key.str)
    /\ posted' = [posted EXCEPT ![path[1]] = Str(key.str)]
    /\ Respond("POST", path, key, 200,
               [NoBody EXCEPT !.kind = "success", !.flag = TRUE])
    /\ UNCHANGED <<wsVars, facadeVars, callVars>>

\* router.post('/:provider')
Post(path, key) ==
    /\ Route("POST", path) = "post"
    /\ IF Falsy(key) \/ key.type # "string"
       THEN /\ Respond("POST", path, key, 400,
                       [NoBody EXCEPT !.kind = "error",
                                      !.error = "API key is required"])
            /\ UNCHANGED <<tableExists, rows, posted>>
       ELSE /\ tableExists' = TRUE
            /\ rows' = storeApiKey(rows, path[1], key.str)
            /\ posted' = [posted EXCEPT ![path[1]] = Str(key.str)]
            /\ Respond("POST", path, key, 200,
                       [NoBody EXCEPT !.kind = "success", !.flag = TRUE])
    /\ UNCHANGED <<wsVars, facadeVars, callVars>>

\* router.delete('/:provider'): deleteApiKey does not create the table, so
\* the statement fails on a database without it and the catch answers 500.
Delete(path) ==
    /\ Route("DELETE", path) = "delete"
    /\ IF tableExists
       THEN /\ rows' = deleteApiKey(rows, path[1])
            /\ posted' = [posted EXCEPT ![path[1]] = Null]
            /\ Respond("DELETE", path, NoKey, 200,
                       [NoBody EXCEPT !.kind = "success", !.flag = TRUE])
       ELSE /\ Respond("DELETE", path, NoKey, 500,
                       [NoBody EXCEPT !.kind = "error",
                                      !.error = "Failed to delete API key"])
            /\ UNCHANGED <<rows, posted>>
    /\ UNCHANGED tableExists
    /\ UNCHANGED <<wsVars, facadeVars, callVars>>

FormatOnlyWarning ==
    "This is a basic format check only. Real validation against provider API not implemented."

\* router.post('/:provider/validate')
Validate(path, key) ==
    /\ Route("POST", path) = "validate"
    /\ IF Falsy(key) \/ key.type # "string"
       THEN Respond("POST", path, key, 400,
                    [NoBody EXCEPT !.kind = "valid", !.flag = FALSE,
                                   !.error = "API key is required"])
       ELSE Respond("POST", path, key, 200,
                    [NoBody EXCEPT !.kind = "valid",
                                   !.flag = (Len(key.str) > 0),
                                   !.error = IF Len(key.str) > 0 THEN ""
                                             ELSE "Invalid API key format",
                                   !.warning = FormatOnlyWarning])
    /\ UNCHANGED <<tableExists, rows, posted>>
    /\ UNCHANGED <<wsVars, facadeVars, callVars>>

\* A request no route of the router matches: Express answers 404 itself.
NotFound(method, path) ==
    /\ Route(method, path) = "none"
    /\ Respond(method, path, NoKey, 404, [NoBody EXCEPT !.kind = "html"])
    /\ UNCHANGED <<tableExists, rows, posted>>
    /\ UNCHANGED <<wsVars, facadeVars, callVars>>

\* app.use(express.json()) fails to parse the body of a request: no route
\* runs, and Express's default error handler answers 400 with an HTML page.
MalformedBody(method, path) ==
    /\ Respond(method, path, Malformed, 400, [NoBody EXCEPT !.kind = "html"])
    /\ UNCHANGED <<tableExists, rows, posted>>
    /\ UNCHANGED <<wsVars, facadeVars, callVars>>

\* The responses fetch() can hand request() when baseUrl (VITE_API_URL)
\* names a host that is not the companion server: ok with a JSON object,
\* or not ok with a JSON object that has an error field, one that has none,
\* or a body that is not JSON.
Statuses == {200, 401, 502}
Bodies(status) ==
    IF status = 200
    THEN {[NoBody EXCEPT !.kind = "success", !.flag = TRUE]}
    ELSE {[NoBody EXCEPT !.kind = "error", !.error = "Unauthorized"],
          [NoBody EXCEPT !.kind = "object"],
          [NoBody EXCEPT !.kind = "html"]}

\* request() against such a host: one fetch(), then the promise settles.
Fetch(status, body) ==
    /\ Respond("GET", <<>>, NoKey, status, body)
    /\ UNCHANGED <<tableExists, rows, posted>>
    /\ UNCHANGED <<wsVars, facadeVars, callVars>>

\* ------------------------------------------------------------------- Init
InitWs ==
    /\ ws = NoSocket
    /\ sockets = <<>>
    /\ timers = 0
    /\ eventListeners = <<>>
    /\ handles = {}
    /\ cancelled = {}
    /\ preClose = {}
    /\ lastMsg = NoMsg
    /\ invoked = <<>>
    /\ escaped = FALSE
    /\ live = [pr \in Channels \X Callbacks |-> 0]
    /\ spent = {}

\* The renderer before accomplish.ts is imported, in any environment.
InitFacade ==
    /\ shell \in ShellValues
    /\ bridge \in BOOLEAN
    /\ envApiBaseUrl \in EnvValues
    /\ envWsUrl \in EnvValues
    /\ module = "unloaded"
    /\ baseUrl = ""
    /\ wsUrl = ""
    /\ load = NoLoad
    /\ calls = <<>>

\* The renderer in a browser tab with accomplish.ts imported: browserApi is
\* constructed with the default URLs.
InitBrowserTab ==
    /\ shell = "undefined"
    /\ bridge = FALSE
    /\ envApiBaseUrl = ""
    /\ envWsUrl = ""
    /\ module = "loaded"
    /\ baseUrl = BrowserApiClient("undefined", "", "").baseUrl
    /\ wsUrl = BrowserApiClient("undefined", "", "").wsUrl
    /\ load = NoLoad
    /\ calls = <<>>

\* The companion server after start-up, before any request.  Whether the
\* database opened by getDatabase() already has the table is left open.
InitStore ==
    /\ tableExists \in BOOLEAN
    /\ rows = <<>>
    /\ posted = [p \in ProviderNames |-> Null]
    /\ response = NoResponse
    /\ outcome = NoOutcome

\* The companion server is not part of the run.
InitNoServer ==
    /\ tableExists = FALSE
    /\ rows = <<>>
    /\ posted = [p \in ProviderNames |-> Null]
    /\ response = NoResponse
    /\ outcome = NoOutcome

NoCall == [fn |-> "", shell |-> "undefined", bridge |-> FALSE, env |-> "",
           kind |-> "none", value |-> "", arg |-> NoArg, passed |-> NoArg]

\* Nothing of environment.ts or of the facade has been called.
InitCalls == lastCall = NoCall

Init == InitWs /\ InitBrowserTab /\ InitNoServer /\ InitCalls

\* ----------------------------------------------------------------- on()
\* eventListeners after has/set/get/add of on().
onListeners(listeners, channel, callback) ==
    LET withKey == IF MapHas(listeners, channel) THEN listeners
                   ELSE [c \in DOMAIN listeners \cup {channel} |->
                           IF c = channel THEN <<>> ELSE listeners[c]]
    IN [withKey EXCEPT ![channel] = SetAdd(@, callback)]

on(channel, callback) ==
    /\ eventListeners' = onListeners(eventListeners, channel, callback)
    /\ LET c2 == connectWebSocket(ws, sockets)
       IN ws' = c2.ws /\ sockets' = c2.sockets
    /\ handles' = handles \cup {<<channel, callback>>}
    /\ cancelled' = cancelled \ {<<channel, callback>>}
    /\ preClose' = {}
    /\ UNCHANGED <<timers, lastMsg, invoked, escaped>>
    /\ UNCHANGED outside

cleanupNoDelete(listeners, channel, callback) == listeners

cleanupClearChannel(listeners, channel, callback) ==
    IF MapHas(listeners, channel)
    THEN [listeners EXCEPT ![channel] = <<>>]
    ELSE listeners

\* The cleanup closure returned by on(): listeners.delete(callback) on the
\* channel's set when the channel has one.
cleanup(listeners, channel, callback) ==
    IF MapHas(listeners, channel)
    THEN [listeners EXCEPT ![channel] = SeqDelete(@, callback)]
    ELSE listeners

\* A caller invokes a cleanup closure (any of them, any number of times).
Unsubscribe(channel, callback) ==
    /\ <<channel, callback>> \in handles
    /\ eventListeners' = cleanup(eventListeners, channel, callback)
    /\ cancelled' = cancelled \cup {<<channel, callback>>}
    /\ preClose' = preClose \ {<<channel, callback>>}
    /\ UNCHANGED <<ws, sockets, timers, handles, lastMsg, invoked, escaped>>
    /\ UNCHANGED outside

\* ------------------------------------------------------------- onmessage
RECURSIVE forEach(_, _)
\* listeners.forEach(listener => listener(data)): the calls made, in order,
\* up to and including the first listener that throws.
forEach(listeners, data) ==
    IF listeners = <<>> THEN <<>>
    ELSE IF Throws(Head(listeners))
         THEN <<[cb |-> Head(listeners), data |-> data]>>
    ELSE <<[cb |-> Head(listeners), data |-> data]>>
             \o forEach(Tail(listeners), data)

onmessageNoTry(p, listeners) ==
    LET parsed == JSONParse(p)
        ls == ListenersOf(listeners, p.channel)
    IN IF ~parsed.ok \/ ~parsed.isObject
       THEN [invoked |-> <<>>, escaped |-> TRUE]
       ELSE [invoked |-> forEach(ls, p.data),
             escaped |-> \E cb \in Range(ls) : Throws(cb)]

\* The body of ws.onmessage: the calls it makes and whether an exception
\* leaves it.  JSON.parse throwing, the destructuring of null throwing and a
\* listener throwing all land in the one catch.
onmessage(p, listeners) ==
    LET parsed == JSONParse(p)
    IN IF ~parsed.ok \/ ~parsed.isObject
       THEN [invoked |-> <<>>, escaped |-> FALSE]
       ELSE [invoked |-> forEach(ListenersOf(listeners, p.channel), p.data),
             escaped |-> FALSE]

\* A frame arrives on the open socket.
Message(p) ==
    /\ ws # NoSocket
    /\ sockets[ws] = "open"
    /\ LET r == onmessage(p, eventListeners)
       IN /\ invoked' = r.invoked
          /\ escaped' = (escaped \/ r.escaped)
    /\ lastMsg' = [kind |-> p.kind, channel |-> p.channel, data |-> p.data,
                   subs |-> ListenersOf(eventListeners, p.channel),
                   cancelled |-> {cb \in Callbacks : <<p.channel, cb>> \in cancelled}]
    /\ UNCHANGED <<ws, sockets, timers, eventListeners, handles, cancelled,
                   preClose>>
    /\ UNCHANGED others

\* ------------------------------------------------- onopen, onerror, onclose
\* ws.onopen only logs; the socket's readyState becomes OPEN.
Open ==
    /\ ws # NoSocket
    /\ sockets[ws] = "connecting"
    /\ sockets' = [sockets EXCEPT ![ws] = "open"]
    /\ UNCHANGED <<ws, timers, eventListeners, handles, cancelled, preClose,
                   lastMsg, invoked, escaped>>
    /\ UNCHANGED others

\* ws.onerror only logs.
Error ==
    /\ ws # NoSocket
    /\ sockets[ws] # "closed"
    /\ UNCHANGED wsVars
    /\ UNCHANGED others

oncloseNoReconnect ==
    /\ ws' = NoSocket
    /\ timers' = timers
    /\ UNCHANGED eventListeners

\* ws.onclose: this.ws = null; setTimeout(() => this.connectWebSocket(), 1000)
onclose ==
    /\ ws' = NoSocket
    /\ timers' = timers + 1
    /\ UNCHANGED eventListeners

\* The current socket closes (a failed connection attempt or an open one).
\* The bound on sockets is applied here, so that a modelled closure can
\* always be followed by its reconnect.
Close ==
    /\ ws # NoSocket
    /\ sockets[ws] # "closed"
    /\ Len(sockets) < MaxSockets
    /\ sockets' = [sockets EXCEPT ![ws] = "closed"]
    /\ onclose
    /\ preClose' = Subscribed(eventListeners)
    /\ UNCHANGED <<handles, cancelled, lastMsg, invoked, escaped>>
    /\ UNCHANGED others

\* A pending reconnect timer fires: connectWebSocket().
TimerFires ==
    /\ timers > 0
    /\ timers' = timers - 1
    /\ LET c2 == connectWebSocket(ws, sockets)
       IN ws' = c2.ws /\ sockets' = c2.sockets
    /\ UNCHANGED <<eventListeners, handles, cancelled, preClose, lastMsg,
                   invoked, escaped>>
    /\ UNCHANGED others

Subscribe ==
    \E c \in Channels, cb \in Callbacks : on(c, cb) /\ UNCHANGED handleVars
Cancel ==
    \E c \in Channels, cb \in Callbacks :
        Unsubscribe(c, cb) /\ UNCHANGED handleVars
Receive == \E p \in Payloads : Message(p)

Next ==
    \/ Subscribe
    \/ Cancel
    \/ Receive
    \/ Open
    \/ Error
    \/ Close
    \/ TimerFires

Spec == Init /\ [][Next]_vars

\* The reconnect timer is a setTimeout callback: once scheduled it fires.
FairSpec == Spec /\ WF_vars(TimerFires)

\* --------------------------------------------- subscriptions and handles
\* on() called: one more subscription of the callback whose cleanup closure
\* has not been invoked.
SubscribeTracked(c, cb) ==
    /\ live[<<c, cb>>] < MaxLive
    /\ on(c, cb)
    /\ live' = [live EXCEPT ![<<c, cb>>] = @ + 1]
    /\ UNCHANGED spent

\* A cleanup closure is invoked for the first time.
CancelFirst(c, cb) ==
    /\ live[<<c, cb>>] > 0
    /\ Unsubscribe(c, cb)
    /\ live' = [live EXCEPT ![<<c, cb>>] = @ - 1]
    /\ spent' = spent \cup {<<c, cb>>}

\* A cleanup closure that was invoked before is invoked again.
CancelAgain(c, cb) ==
    /\ <<c, cb>> \in spent
    /\ Unsubscribe(c, cb)
    /\ UNCHANGED handleVars

NextHandles ==
    \/ \E c \in Channels, cb \in Callbacks : SubscribeTracked(c, cb)
    \/ \E c \in Channels, cb \in Callbacks : CancelFirst(c, cb)
    \/ \E c \in Channels, cb \in Callbacks : CancelAgain(c, cb)

SpecHandles == Init /\ [][NextHandles]_vars

\* ------------------------------------------ the facade in any environment
ChangeShell == \E v \in ShellValues : SetShell(v)
ChangeBridge == \E b \in BOOLEAN : SetBridge(b)

NextFacade ==
    \/ Import
    \/ GetAccomplish
    \/ ChangeShell
    \/ ChangeBridge

InitAnyEnvironment == InitWs /\ InitFacade /\ InitNoServer /\ InitCalls

SpecFacade == InitAnyEnvironment /\ [][NextFacade]_vars

\* ---------------------------------- the detector, the accessors, the facade
UseCapability == \E op \in Capabilities, arg \in Args : CallCapability(op, arg)

\* A browser tab with accomplish.ts imported, whose callers use the facade
\* while scripts of the page may change the globals.
NextCalls ==
    \/ UseCapability
    \/ UseAccomplish
    \/ ChangeShell
    \/ ChangeBridge

SpecCalls == Init /\ [][NextCalls]_vars

\* Callers of environment.ts in any environment.
NextEnvironment ==
    \/ IsElectron
    \/ IsBrowser
    \/ GetRuntimeMode
    \/ GetApiBaseUrl
    \/ GetWebSocketUrl
    \/ ChangeShell

SpecEnvironment == InitAnyEnvironment /\ [][NextEnvironment]_vars

\* ------------------------------------------------------ the companion server
NextStore ==
    \/ \E path \in Paths : HasAny(path)
    \/ \E path \in Paths : GetAll(path)
    \/ \E path \in Paths : Exists(path)
    \/ \E path \in Paths : Get(path)
    \/ \E path \in Paths, key \in KeyValues : Post(path, key)
    \/ \E path \in Paths : Delete(path)
    \/ \E path \in Paths, key \in KeyValues : Validate(path, key)
    \/ \E method \in Methods, path \in Paths : NotFound(method, path)
    \/ \E method \in Methods, path \in Paths : MalformedBody(method, path)

InitServer == InitWs /\ InitBrowserTab /\ InitStore /\ InitCalls

SpecStore == InitServer /\ [][NextStore]_vars

\* -------------------------------------------- request() against any host
NextClient ==
    \/ NextStore
    \/ \E status \in Statuses : \E body \in Bodies(status) :
          Fetch(status, body)

SpecClient == InitServer /\ [][NextClient]_vars

\* ----------------------------- the single-key operations of the facade
\* createBrowserAccomplishAPI().hasApiKey(): GET /api/api-keys/has-any
HasApiKey == HasAny(<<"has-any">>)

\* createBrowserAccomplishAPI().getApiKey(): GET /api/api-keys/default
GetApiKey == Get(<<"default">>)

\* createBrowserAccomplishAPI().setApiKey(key): POST /api/api-keys/default
SetApiKey(key) == Post(<<"default">>, [type |-> "string", str |-> key])

\* createBrowserAccomplishAPI().clearApiKey(): DELETE /api/api-keys/default
ClearApiKey == Delete(<<"default">>)

\* createBrowserAccomplishAPI().validateApiKeyForProvider(provider, key):
\* POST /api/api-keys/<provider>/validate; validateApiKey(key) is the call
\* for provider 'default'.
ValidateApiKeyForProvider(provider, key) ==
    Validate(<<provider, "validate">>, [type |-> "string", str |-> key])

\* createBrowserAccomplishAPI().getAllApiKeys(): GET /api/api-keys/all
GetAllApiKeys == GetAll(<<"all">>)

NextKeys ==
    \/ HasApiKey
    \/ GetApiKey
    \/ \E key \in KeyStrings : SetApiKey(key)
    \/ ClearApiKey
    \/ \E provider \in ProviderNames, key \in KeyStrings :
          ValidateApiKeyForProvider(provider, key)
    \/ GetAllApiKeys

SpecKeys == InitServer /\ [][NextKeys]_vars

\* ------------------------------------------------------------ the claims
\* C1: getAccomplish() never throws in Remote mode; in Native mode obtaining
\* the API fails if and only if window.accomplish is absent, so with the
\* bridge present the module loads and getAccomplish() returns the API.
C1_NativeFailsIffBridgeAbsent ==
    /\ \A i \in 1..Len(calls) :
          /\ ~isElectron(calls[i].shell) => calls[i].result = "remote"
          /\ isElectron(calls[i].shell) =>
                (calls[i].result = "native" <=> calls[i].bridge)
    /\ (isElectron(load.shell) /\ load.bridge) => module # "failed"
    /\ ~isElectron(load.shell) => module # "failed"

\* C2: the calls of one session are never served by both implementations,
\* whatever happens to the marker between them.
C2_ModeStable ==
    \A i, j \in 1..Len(calls) :
        ~(calls[i].result = "remote" /\ calls[j].result = "native")

LiveSockets == {i \in 1..Len(sockets) : sockets[i] # "closed"}

\* The call of cb with the data of the frame handled last.
Called(cb) == [cb |-> cb, data |-> lastMsg.data] \in Range(invoked)

\* C3: a client never has more than one WebSocket that is not closed, and
\* it has none before the first call of on().
C3_AtMostOneLiveSocket ==
    /\ Cardinality(LiveSockets) <= 1
    /\ (handles = {} => sockets = <<>>)

\* A socket closed, on() connected a replacement and the reconnect timer of
\* the closure is still pending.
C3_Witness ==
    /\ Len(sockets) >= 2
    /\ Cardinality(LiveSockets) = 1
    /\ timers > 0

\* C4: every callback subscribed to a frame's channel when the frame arrives
\* is invoked with the frame's data.  (Frames are handled one at a time to
\* completion, so every callback sees them in arrival order.)
C4_BothSubscribersInvoked ==
    lastMsg.kind = "envelope" =>
        \A cb \in Range(lastMsg.subs) : Called(cb)

\* C5: a cancelled subscription is out of the map at once, and no frame that
\* arrives after the cancellation is dispatched to its callback.
C5_CancelledNeverInvoked ==
    /\ cancelled \cap Subscribed(eventListeners) = {}
    /\ \A i \in 1..Len(invoked) : invoked[i].cb \notin lastMsg.cancelled

\* A frame arrived on a channel with one cancelled callback and one that is
\* still subscribed and was called.
C5_Witness ==
    /\ lastMsg.kind = "envelope"
    /\ lastMsg.cancelled # {}
    /\ invoked # <<>>

\* C6: a closure leaves the subscription map alone, and every callback that
\* was subscribed at the closure and not cancelled since is invoked with
\* each frame that arrives afterwards with no call of on() in between.
C6_SubscribersSurviveReconnect ==
    [][/\ Close => eventListeners' = eventListeners
       /\ (lastMsg' # lastMsg /\ lastMsg'.kind = "envelope") =>
            \A cb \in Callbacks :
                <<lastMsg'.channel, cb>> \in preClose =>
                    [cb |-> cb, data |-> lastMsg'.data] \in Range(invoked')]_vars

\* C7: every closure of the channel is eventually followed by a new
\* connection attempt, however many closures came before it.
C7_ClosureLeadsToReconnect ==
    (ws = NoSocket /\ sockets # <<>>) ~> (ws # NoSocket)

\* Two closures in a row were each followed by a new socket.
C7_Witness ==
    /\ Len(sockets) = 3
    /\ sockets[1] = "closed"
    /\ sockets[2] = "closed"
    /\ ws = 3

\* C8: a frame that is not JSON lets no exception out of the handler, calls
\* no callback and changes neither the socket, the timers nor the
\* subscriptions; a well-formed frame, also one after it, is dispatched to
\* the listeners of its channel.
C8_MalformedDropped ==
    /\ [](/\ ~escaped
          /\ (lastMsg.kind = "text" => invoked = <<>>)
          /\ (lastMsg.kind = "envelope" /\ lastMsg.subs # <<>> =>
                 invoked # <<>> /\ invoked[1] =
                     [cb |-> Head(lastMsg.subs), data |-> lastMsg.data]))
    /\ [][(lastMsg' # lastMsg /\ lastMsg'.kind = "text") =>
             UNCHANGED <<ws, sockets, timers, eventListeners, handles>>]_vars

\* A malformed frame was handled while callbacks were subscribed, and the
\* socket is still open.
C8_Witness ==
    /\ lastMsg.kind = "text"
    /\ Subscribed(eventListeners) # {}
    /\ ws # NoSocket
    /\ sockets[ws] = "open"

\* C9: a cleanup closure takes its own callback out of its own channel's set
\* and changes nothing else: not the socket, not a pending reconnect, not
\* any other subscription.
C9_CleanupFrame ==
    [][\A c \in Channels, cb \in Callbacks :
         Unsubscribe(c, cb) =>
            /\ ws' = ws /\ sockets' = sockets /\ timers' = timers
            /\ DOMAIN eventListeners' = DOMAIN eventListeners
            /\ Subscribed(eventListeners') =
                   Subscribed(eventListeners) \ {<<c, cb>>}
            /\ \A c2 \in DOMAIN eventListeners :
                   c2 # c => eventListeners'[c2] = eventListeners[c2]]_vars

\* A subscription was cancelled while the socket is live, a reconnect is
\* pending and another callback is subscribed to the same channel.
C9_Witness ==
    /\ ws # NoSocket
    /\ timers > 0
    /\ \E c \in Channels, cb1 \in Callbacks, cb2 \in Callbacks :
          /\ <<c, cb1>> \in cancelled
          /\ <<c, cb2>> \in Subscribed(eventListeners)
\* C10: POST /api/api-keys/p with a non-empty string key answers
\* {success: true}, and a GET /api/api-keys/p with no write to p in between
\* answers {key: k} with the key posted.
C10_RoundTrip ==
    /\ (response.method = "POST" /\ Len(response.path) = 1
            /\ response.key.type = "string" /\ response.key.str # <<>>) =>
          (response.status = 200 /\ response.body.kind = "success")
    /\ \A p \in ProviderNames :
          (response.method = "GET" /\ response.path = <<p>>
              /\ ~posted[p].isNull) =>
            /\ response.status = 200
            /\ response.body.kind = "key"
            /\ response.body.key = posted[p]

\* A request for the key of a provider, or for its validation.
IsPost(resp) ==
    resp.method = "POST" /\ Len(resp.path) = 1 /\ resp.key \in KeyValues
IsValidate(resp) ==
    /\ resp.method = "POST" /\ Len(resp.path) = 2
    /\ resp.path[2] = "validate" /\ resp.key \in KeyValues

\* The response is JSON with a string error field.
HasError(body) == body.kind \in {"error", "valid"} /\ body.error # ""

\* C11: POST /api/api-keys/{provider} with a key that is missing, empty or
\* not a string is answered 400 with an error field, and the stored keys
\* are left unchanged.
C11_BadKeyRejected ==
    /\ []((IsPost(response)
            /\ (Falsy(response.key) \/ response.key.type # "string")) =>
           (response.status = 400 /\ HasError(response.body)))
    /\ [][(IsPost(response')
            /\ (Falsy(response'.key) \/ response'.key.type # "string")) =>
           UNCHANGED <<tableExists, rows>>]_vars

C11_Witness ==
    /\ IsPost(response) /\ response.status = 400
    /\ response.key.type = "number"
    /\ rows # <<>>

\* C12: DELETE /api/api-keys/{provider} answers {success: true} from every
\* store state, also as the first operation on a fresh database, and a GET
\* /api/api-keys/{provider}/exists afterwards answers {exists: false}.
C12_DeleteSucceeds ==
    /\ (response.method = "DELETE" /\ Len(response.path) = 1
            /\ response.key # Malformed) =>
          (response.status = 200 /\ response.body.kind = "success")
    /\ (response.method = "GET" /\ Len(response.path) = 2
            /\ response.path[2] = "exists" /\ response.key # Malformed
            /\ posted[response.path[1]].isNull) =>
          (response.body.kind = "exists" /\ ~response.body.flag)

\* C13: every response of POST /api/api-keys/{provider}/validate carries a
\* non-empty warning, for a valid and for an invalid key.
C13_WarningAlways ==
    IsValidate(response) => response.body.warning # ""

\* C14: the validate endpoint answers valid = false with an error for the
\* empty key and valid = true for a non-empty string, and validateApiKey
\* returns that {valid, error} result to its caller.
C14_ValidateResult ==
    (IsValidate(response) /\ response.key.type = "string") =>
      /\ response.body.kind = "valid"
      /\ response.body.flag = (response.key.str # <<>>)
      /\ ~response.body.flag => response.body.error # ""
      /\ validateApiKey(response).settled = "resolved"
      /\ validateApiKey(response).value.flag = response.body.flag
      /\ validateApiKey(response).value.error = response.body.error

\* C17: every response with a 4xx or 5xx status has a JSON body with a
\* string error field.
C17_ErrorBodies ==
    response.status >= 400 => HasError(response.body)

\* k occurs in s.
Contains(s, k) ==
    \E i \in 0..(Len(s) - Len(k)) : SubSeq(s, i + 1, i + Len(k)) = k

\* C18: the prefix GET /api/api-keys/all returns for a provider never
\* contains the whole of the key stored for it.
C18_PrefixHidesKey ==
    (response.method = "GET" /\ response.body.kind = "all") =>
      \A p \in DOMAIN response.body.all :
        ~Contains(response.body.all[p].prefix, getApiKey(rows, p).str)

\* The call recorded last was a call of the browser API.
RemoteCall == lastCall.fn \in Capabilities /\ lastCall.kind \notin {"native", "threw"}

\* The capabilities of task execution, permission responses, session
\* resumption, provider-specific configuration and debug-mode toggling.
Unsupported(op) ==
    \/ Category(op) \in {"task", "permission", "session", "ollama", "azure",
                          "litellm", "openrouter", "bedrock"}
    \/ op = "setDebugMode"

\* C15: every capability the browser API does not support is rejected
\* with the message "Not implemented in browser mode", the same for all
\* of them, and none of them succeeds.
C15_SameFailure ==
    (RemoteCall /\ (lastCall.kind = "rejected" \/ Unsupported(lastCall.fn))) =>
      (lastCall.kind = "rejected" /\ lastCall.value = NotImplemented)

\* C16: in Remote mode every operation of task execution, provider-specific
\* configuration, permission responses, session resumption and debug-mode
\* toggling is rejected as not implemented; none resolves.
C16_UnsupportedRejected ==
    (RemoteCall /\ Unsupported(lastCall.fn)) =>
      /\ lastCall.kind = "rejected"
      /\ lastCall.value \in {NotImplemented, TaskExecutionNotYet,
                              TaskOperationsNotYet}

C20_UrlAccessors ==
    LET native == lastCall.shell = "true"
    IN /\ lastCall.fn \in {"getApiBaseUrl", "getWebSocketUrl"} =>
            lastCall.kind = (IF native THEN "threw" ELSE "returned")
       /\ (lastCall.fn = "getApiBaseUrl" /\ ~native) =>
            lastCall.value = (IF lastCall.env = "" THEN "http://localhost:3001"
                              ELSE lastCall.env)
       /\ (lastCall.fn = "getWebSocketUrl" /\ ~native) =>
            lastCall.value = (IF lastCall.env = "" THEN "ws://localhost:3002"
                              ELSE lastCall.env)

C20_Witness ==
    /\ lastCall.fn = "getApiBaseUrl"
    /\ lastCall.shell = "true"
    /\ lastCall.env = "configured"
    /\ lastCall.kind = "threw"

\* C21 as stated: in Native mode every operation of the API getAccomplish()
\* returns is the bridge's own operation, called with the caller's
\* arguments unchanged.
C21_NativeVerbatim ==
    lastCall.kind = "native" =>
      (lastCall.value = lastCall.fn /\ lastCall.passed = lastCall.arg)

\* C21 as amended: the same, except for the Bedrock wrappers:
\* validateBedrockCredentials and saveBedrockCredentials hand the bridge
\* JSON.stringify of the caller's argument, and getBedrockCredentials
\* hands it no argument.
C21_NativeVerbatimButBedrock ==
    lastCall.kind = "native" =>
      /\ lastCall.value = lastCall.fn
      /\ lastCall.passed =
           (IF lastCall.fn \in {"validateBedrockCredentials",
                                "saveBedrockCredentials"}
            THEN JSONStringify(lastCall.arg)
            ELSE IF lastCall.fn = "getBedrockCredentials" THEN NoArg
            ELSE lastCall.arg)

C21_Witness ==
    /\ lastCall.kind = "native"
    /\ lastCall.fn = "saveBedrockCredentials"
    /\ lastCall.arg.type = "object"
    /\ lastCall.passed = JSONStringify(lastCall.arg)

\* C29: useAccomplish() yields an API of the same mode as getAccomplish(),
\* succeeds whenever getAccomplish() succeeds, and never hands out the
\* native bridge while the detector reports Remote.
C29_EntryPointsAgree ==
    lastCall.fn = "useAccomplish" =>
      LET g == getAccomplish(lastCall.shell, lastCall.bridge)
      IN /\ g \in {"remote", "native"} =>
              (lastCall.kind = "returned" /\ lastCall.value = g)
         /\ ~isElectron(lastCall.shell) =>
              ~(lastCall.kind = "returned" /\ lastCall.value = "native")

\* C22: after a closure a new connection attempt starts only when the
\* reconnect delay of that closure has elapsed, whatever on() calls occur
\* in between.
C22_ReconnectOnlyAfterDelay ==
    [][(sockets # <<>> /\ Len(sockets') > Len(sockets)) =>
          timers' < timers]_vars

\* C25: a callback that throws affects only itself: no exception leaves
\* the message handler and every other callback of the channel is still
\* invoked with the message.
C25_ThrowingSubscriberIsolated ==
    /\ ~escaped
    /\ lastMsg.kind = "envelope" =>
          \A cb \in Range(lastMsg.subs) :
              (\E t \in Range(lastMsg.subs) : t # cb /\ Throws(t)) =>
                  Called(cb)

\* C26: a cleanup closure cancels only the subscription that created it
\* and is idempotent: a subscription whose own closure has not been invoked
\* stays in the map, and invoking a closure again changes nothing.
C26_HandleCancelsOwnSubscription ==
    /\ [](\A pr \in Channels \X Callbacks :
            live[pr] > 0 => pr \in Subscribed(eventListeners))
    /\ [][\A c \in Channels, cb \in Callbacks :
            CancelAgain(c, cb) => UNCHANGED eventListeners]_vars

Ok(resp) == resp.status >= 200 /\ resp.status <= 299

WithKey == {p \in ProviderNames : ~posted[p].isNull}

\* C27: the responses of the router are those of a map from provider to
\* key: GET /p answers the key of the latest POST to p since the last
\* DELETE of p, else null; GET /p/exists answers whether that key is not
\* null; GET /all lists exactly the providers with a key; GET /has-any
\* answers whether some provider has one.
C27_RefinesMap ==
    /\ \A p \in ProviderNames :
          (response.method = "GET" /\ response.path = <<p>>
              /\ response.key # Malformed) =>
            /\ response.status = 200
            /\ response.body.kind = "key"
            /\ response.body.key = posted[p]
    /\ \A p \in ProviderNames :
          (response.method = "GET" /\ response.path = <<p, "exists">>
              /\ response.key # Malformed) =>
            /\ response.status = 200
            /\ response.body.flag = (p \in WithKey)
    /\ (response.method = "GET" /\ response.body.kind = "all") =>
          DOMAIN response.body.all = WithKey
    /\ (response.method = "GET" /\ response.path = <<"has-any">>
          /\ response.body.kind = "exists") =>
          response.body.flag = (WithKey # {})

\* C28: through the single-key operations of the Remote facade, hasApiKey()
\* resolves true exactly when getApiKey() resolves to a key: each of the
\* two resolves, to what the other would resolve to in the same state; a
\* setApiKey() that resolved leaves a key for both, and a clearApiKey()
\* that resolved leaves none.
C28_SingleKeyConsistent ==
    /\ hasAnyApiKey(rows) <=> ~getApiKey(rows, "default").isNull
    /\ (response.method = "GET" /\ response.path = <<"has-any">>) =>
          /\ outcome.settled = "resolved"
          /\ outcome.value.flag <=> ~getApiKey(rows, "default").isNull
    /\ (response.method = "GET" /\ response.path = <<"default">>) =>
          /\ outcome.settled = "resolved"
          /\ ~outcome.value.key.isNull <=> hasAnyApiKey(rows)
    /\ (response.method = "POST" /\ response.path = <<"default">>
          /\ outcome.settled = "resolved") =>
          /\ hasAnyApiKey(rows)
          /\ ~getApiKey(rows, "default").isNull
    /\ (response.method = "DELETE" /\ outcome.settled = "resolved") =>
          /\ ~hasAnyApiKey(rows)
          /\ getApiKey(rows, "default").isNull

C28_Witness ==
    /\ response.method = "GET"
    /\ response.path = <<"has-any">>
    /\ outcome.settled = "resolved"
    /\ outcome.value.flag
    /\ ~getApiKey(rows, "default").isNull
====
